---- MODULE Spec2Model ----
(***************************************************************************)
(* Model of the OpenAPI schema generator of trpc-openapi                   *)
(* (src/unnamed/part_000): getBaseZodType, extractPathSchema,              *)
(* schemaToPathParameterObjects, getParameterObjects and                   *)
(* getMutationInputObjects.                                                *)
(*                                                                         *)
(* A zod schema instance is a record holding what the code reads of its    *)
(* _def: typeName, and the inner schema of a wrapper (innerType for        *)
(* ZodOptional / ZodDefault / ZodNullable, schema for ZodEffects) or the   *)
(* shape of a ZodObject.  A JavaScript plain object (a shape, the result   *)
(* of Object.fromEntries, a spread) is an ordered mapping: a sequence of   *)
(* [key, value] entries with distinct keys, in property order.  Field      *)
(* names are not array-index-like, so property order is insertion order.   *)
(* A plain object inherits the properties of Object.prototype.             *)
(***************************************************************************)
EXTENDS Naturals, Sequences, FiniteSets, TLC

\* schema, path: the arguments of the build calls
\* pathSchema: what the last extractPathSchema(schema, path) call gave
\* parameterObjects: the outcome of getParameterObjects(schema, path)
\* mutationInputObjects: the outcome of getMutationInputObjects(schema, path)
VARIABLES schema, path, pathSchema, parameterObjects, mutationInputObjects

vars == <<schema, path, pathSchema, parameterObjects, mutationInputObjects>>

---------------------------------------------------------------------------
(* Bounds of the checked inputs.                                           *)

\* fields of a generated object schema
MaxFields == 2
\* segments of a generated path template
MaxSegments == 2
\* wrappers stacked on one field of a generated single-field schema
MaxWrap == 3

---------------------------------------------------------------------------
(* Messages of the thrown TRPCErrors, under the labels of the error        *)
(* taxonomy.                                                               *)

NotASchema == "Input parser expects ZodType"
ObjectKindRequired == "Input parser expects ZodObject"
StringFieldRequired == "Input parser expects ZodObject<{ [string]: ZodString }>"
MalformedSegment == "An invalid dynamic URL segment found."
UnknownPathField == "A dynamic segment found with no matching input parameter"

\* a call that threw: TRPCError with code INTERNAL_SERVER_ERROR
Throw(message) ==
    [ok |-> FALSE, message |-> message, code |-> "INTERNAL_SERVER_ERROR"]

\* a call that returned
Return(value) == [ok |-> TRUE, value |-> value]

---------------------------------------------------------------------------
(* Schema instances.                                                       *)

ZodString == [typeName |-> "ZodString"]
ZodNumber == [typeName |-> "ZodNumber"]
ZodOptional(inner) == [typeName |-> "ZodOptional", innerType |-> inner]
\* defaultValue: a value the inner schema accepts
ZodDefault(inner) ==
    [typeName |-> "ZodDefault", innerType |-> inner,
     defaultValue |-> "defaultValue"]
ZodNullable(inner) == [typeName |-> "ZodNullable", innerType |-> inner]
\* acceptsUndefined: whether the effect (refinement, transform, preprocess)
\* lets safeParse(undefined) succeed; a preprocess can make it either way
\* whatever the inner schema is
ZodEffects(inner, acceptsUndefined) ==
    [typeName |-> "ZodEffects", schema |-> inner,
     acceptsUndefined |-> acceptsUndefined]
\* z.object(shape)
ZodObject(shape) == [typeName |-> "ZodObject", shape |-> shape]

\* schema?._def?.typeName is truthy
zodInstanceofZodType(s) == "typeName" \in DOMAIN s

\* schema?._def?.typeName === zodTypeKind
zodInstanceof(s, zodTypeKind) ==
    "typeName" \in DOMAIN s /\ s.typeName = zodTypeKind

\* mutant of getBaseZodType: the commented-out ZodNullable case switched on
RECURSIVE getBaseZodTypeThroughNullable(_)
getBaseZodTypeThroughNullable(s) ==
    IF zodInstanceof(s, "ZodOptional") \/ zodInstanceof(s, "ZodNullable")
    THEN getBaseZodTypeThroughNullable(s.innerType)
    ELSE IF zodInstanceof(s, "ZodDefault")
    THEN getBaseZodTypeThroughNullable(s.innerType)
    ELSE IF zodInstanceof(s, "ZodEffects")
    THEN getBaseZodTypeThroughNullable(s.schema)
    ELSE s

RECURSIVE getBaseZodType(_)
getBaseZodType(s) ==
    IF zodInstanceof(s, "ZodOptional") THEN getBaseZodType(s.innerType)
    ELSE IF zodInstanceof(s, "ZodDefault") THEN getBaseZodType(s.innerType)
    ELSE IF zodInstanceof(s, "ZodEffects") THEN getBaseZodType(s.schema)
    ELSE s

\* ZodType.isOptional(): this.safeParse(undefined).success.  ZodOptional
\* accepts undefined; ZodDefault replaces undefined by its default value,
\* which its inner schema accepts; ZodNullable hands undefined to its inner
\* schema; a string, a number and an object reject undefined.
RECURSIVE isOptional(_)
isOptional(s) ==
    CASE s.typeName = "ZodOptional" -> TRUE
      [] s.typeName = "ZodDefault" -> TRUE
      [] s.typeName = "ZodNullable" -> isOptional(s.innerType)
      [] s.typeName = "ZodEffects" -> s.acceptsUndefined
      [] OTHER -> FALSE

---------------------------------------------------------------------------
(* Plain objects as ordered mappings.                                      *)

RECURSIVE ObjectKeys(_)
\* Object.keys(o) of a plain object
ObjectKeys(o) ==
    IF o = <<>> THEN <<>> ELSE <<Head(o).key>> \o ObjectKeys(Tail(o))

\* Object.values(o) of a plain object
RECURSIVE ObjectValues(_)
ObjectValues(o) ==
    IF o = <<>> THEN <<>> ELSE <<Head(o).value>> \o ObjectValues(Tail(o))

KeySet(o) == {o[i].key : i \in DOMAIN o}

\* key in o (own property)
HasKey(o, key) == key \in KeySet(o)

\* the own property of o under key, for a key of o
Get(o, key) == (CHOOSE e \in {o[i] : i \in DOMAIN o} : e.key = key).value

\* the property names every plain object inherits from Object.prototype
ObjectPrototypeKeys ==
    {"constructor", "toString", "toLocaleString", "valueOf", "hasOwnProperty",
     "isPrototypeOf", "propertyIsEnumerable", "__proto__",
     "__defineGetter__", "__defineSetter__", "__lookupGetter__",
     "__lookupSetter__"}

\* undefined
Undefined == <<>>

\* what Object.prototype holds under a name: a function (or the prototype
\* itself), no schema
InheritedProperty(key) == [inherited |-> key]

\* o[key] as JavaScript reads it: an own property, else one inherited from
\* Object.prototype, else undefined
Lookup(o, key) ==
    IF HasKey(o, key) THEN Get(o, key)
    ELSE IF key \in ObjectPrototypeKeys THEN InheritedProperty(key)
    ELSE Undefined

\* o[key] = value: an existing key keeps its place, a new one goes last
Put(o, key, value) ==
    IF HasKey(o, key)
    THEN [i \in DOMAIN o |->
            IF o[i].key = key THEN [key |-> key, value |-> value] ELSE o[i]]
    ELSE Append(o, [key |-> key, value |-> value])

\* Object.fromEntries(entries): the entries written in order
RECURSIVE PutAll(_, _)
PutAll(o, entries) ==
    IF entries = <<>> THEN o
    ELSE PutAll(Put(o, Head(entries).key, Head(entries).value), Tail(entries))

ObjectFromEntries(entries) == PutAll(<<>>, entries)

\* mutant of Spread: the operands swapped, { ...b, ...a }
SpreadSwapped(a, b) == PutAll(b, a)

\* { ...a, ...b }
Spread(a, b) == PutAll(a, b)

---------------------------------------------------------------------------
(* The JSON-Schema bridge (zod-to-json-schema, target openApi3), by what   *)
(* it renders of the kinds of this model.                                  *)

RECURSIVE zodSchemaToOpenApiSchemaObject(_)
RECURSIVE JsonProperties(_)
\* the properties of an object schema document, in shape order
JsonProperties(shape) ==
    IF shape = <<>> THEN <<>>
    ELSE <<[key |-> Head(shape).key,
            value |-> zodSchemaToOpenApiSchemaObject(Head(shape).value)]>>
         \o JsonProperties(Tail(shape))

\* the "required" list of an object schema document
RECURSIVE JsonRequired(_)
JsonRequired(shape) ==
    IF shape = <<>> THEN <<>>
    ELSE (IF isOptional(Head(shape).value) THEN <<>> ELSE <<Head(shape).key>>)
         \o JsonRequired(Tail(shape))

zodSchemaToOpenApiSchemaObject(s) ==
    CASE s.typeName = "ZodString" -> [type |-> "string"]
      [] s.typeName = "ZodNumber" -> [type |-> "number"]
      [] s.typeName = "ZodOptional" ->
            zodSchemaToOpenApiSchemaObject(s.innerType)
      [] s.typeName = "ZodDefault" ->
            [default |-> s.defaultValue]
            @@ zodSchemaToOpenApiSchemaObject(s.innerType)
      [] s.typeName = "ZodNullable" ->
            [nullable |-> TRUE] @@ zodSchemaToOpenApiSchemaObject(s.innerType)
      [] s.typeName = "ZodEffects" ->
            zodSchemaToOpenApiSchemaObject(s.schema)
      [] s.typeName = "ZodObject" ->
            [type |-> "object",
             properties |-> JsonProperties(s.shape),
             required |-> JsonRequired(s.shape),
             additionalProperties |-> FALSE]

---------------------------------------------------------------------------
(* Path templates.  A template is the sequence of its "/"-separated        *)
(* segments; a segment is its text and whether braces enclose it:          *)
(* /users/{id} is <<Segment("users", FALSE), Segment("id", TRUE)>>, and    *)
(* Segment("", TRUE) is the segment {}.                                    *)

Segment(text, braces) == [text |-> text, braces |-> braces]

\* Array.from(path.matchAll(/\{(\w+)\}/g)).map((m) => m[1]): the captures,
\* in order, duplicates kept; {} has no word character and does not match
RECURSIVE DynamicSegments(_)
DynamicSegments(p) ==
    IF p = <<>> THEN <<>>
    ELSE (IF Head(p).braces /\ Head(p).text # ""
          THEN <<Head(p).text>> ELSE <<>>)
         \o DynamicSegments(Tail(p))

---------------------------------------------------------------------------
(* extractPathSchema                                                       *)

\* the .map((key) => ...) over the captured names: the first throw ends it
RECURSIVE PathEntries(_, _)
PathEntries(keys, shape) ==
    IF keys = <<>> THEN Return(<<>>)
    ELSE LET key == Head(keys)
             inputParam == Lookup(shape, key)
         IN  IF key = "" THEN Throw(MalformedSegment)
             ELSE IF inputParam = Undefined THEN Throw(UnknownPathField)
             ELSE LET rest == PathEntries(Tail(keys), shape) IN
                  IF rest.ok
                  THEN Return(<<[key |-> key, value |-> inputParam]>>
                              \o rest.value)
                  ELSE rest

\* The own enumerable property names of a ZodObject instance: what the
\* ZodType constructor and the ZodObject class fields assign on the
\* instance (_def in every release of zod 3, the bound methods in the
\* later ones).  The fields of the schema are not among them: shape is a
\* getter over _def.
ZodObjectOwnKeys ==
    {"_def", "_cached", "spa", "parse", "safeParse", "parseAsync",
     "safeParseAsync", "refine", "refinement", "superRefine", "optional",
     "nullable", "nullish", "array", "promise", "or", "and", "transform",
     "default", "describe", "isNullable", "isOptional", "nonstrict",
     "augment", "extend"}

\* Object.keys(pathParams), pathParams being the ZodObject instance; as a
\* set, since it only becomes the mask of omit
InstanceKeys(zodObject) == ZodObjectOwnKeys

\* the entries of shape whose key is not in mask
RECURSIVE OmitEntries(_, _)
OmitEntries(shape, mask) ==
    IF shape = <<>> THEN <<>>
    ELSE (IF Head(shape).key \in mask THEN <<>> ELSE <<Head(shape)>>)
         \o OmitEntries(Tail(shape), mask)

\* schema.omit(mask): a new ZodObject without the masked fields
omit(s, mask) == ZodObject(OmitEntries(s.shape, mask))

\* mutant of extractPathSchema: the object guard looks at the unwrapped
\* base of the top-level schema
extractPathSchemaOfBase(s, p) ==
    IF ~zodInstanceofZodType(s) THEN Throw(NotASchema)
    ELSE IF ~zodInstanceof(getBaseZodType(s), "ZodObject")
    THEN Throw(ObjectKindRequired)
    ELSE LET shape == getBaseZodType(s).shape
             entries == PathEntries(DynamicSegments(p), shape)
         IN  IF ~entries.ok THEN entries
             ELSE LET pathParams == ZodObject(ObjectFromEntries(entries.value))
                      restParams ==
                          omit(getBaseZodType(s), InstanceKeys(pathParams))
                  IN  Return([pathParams |-> pathParams,
                              restParams |-> restParams])

extractPathSchema(s, p) ==
    IF ~zodInstanceofZodType(s) THEN Throw(NotASchema)
    ELSE IF ~zodInstanceof(s, "ZodObject") THEN Throw(ObjectKindRequired)
    ELSE LET shape == s.shape
             entries == PathEntries(DynamicSegments(p), shape)
         IN  IF ~entries.ok THEN entries
             ELSE LET pathParams == ZodObject(ObjectFromEntries(entries.value))
                      restParams == omit(s, InstanceKeys(pathParams))
                  IN  Return([pathParams |-> pathParams,
                              restParams |-> restParams])

---------------------------------------------------------------------------
(* The parameter builders.                                                 *)

\* mutant of PathParameterObject: isOptional() asked of the unwrapped base
PathParameterObjectOfBase(key, type) ==
    [name |-> key, in |-> "path",
     required |-> ~isOptional(getBaseZodType(type)),
     schema |-> zodSchemaToOpenApiSchemaObject(type),
     style |-> "simple", explode |-> TRUE]

\* the ParameterObject of a path field
PathParameterObject(key, type) ==
    [name |-> key, in |-> "path", required |-> ~isOptional(type),
     schema |-> zodSchemaToOpenApiSchemaObject(type),
     style |-> "simple", explode |-> TRUE]

\* the ParameterObject of a query field
QueryParameterObject(key, type) ==
    [name |-> key, in |-> "query", required |-> ~isOptional(type),
     schema |-> zodSchemaToOpenApiSchemaObject(type),
     style |-> "form", explode |-> TRUE]

\* whether the per-field rule accepts the field schema
IsStringField(value) == zodInstanceof(getBaseZodType(value), "ZodString")

\* Object.keys(schema.shape).map((key) => ...) of
\* schemaToPathParameterObjects: the first throw ends it
RECURSIVE PathParameterEntries(_)
PathParameterEntries(shape) ==
    IF shape = <<>> THEN Return(<<>>)
    ELSE LET key == Head(shape).key
             value == Head(shape).value
         IN  IF ~IsStringField(value) THEN Throw(StringFieldRequired)
             ELSE LET rest == PathParameterEntries(Tail(shape)) IN
                  IF rest.ok
                  THEN Return(<<[key |-> key,
                                 value |-> PathParameterObject(key, value)]>>
                              \o rest.value)
                  ELSE rest

schemaToPathParameterObjects(s) ==
    LET entries == PathParameterEntries(s.shape) IN
    IF entries.ok THEN Return(ObjectFromEntries(entries.value)) ELSE entries

\* Object.keys(restParams.shape).map((key) => ...) of getParameterObjects
RECURSIVE RestParameterEntries(_)
RestParameterEntries(shape) ==
    IF shape = <<>> THEN Return(<<>>)
    ELSE LET key == Head(shape).key
             value == Head(shape).value
         IN  IF ~IsStringField(value) THEN Throw(StringFieldRequired)
             ELSE LET rest == RestParameterEntries(Tail(shape)) IN
                  IF rest.ok
                  THEN Return(<<[key |-> key,
                                 value |-> QueryParameterObject(key, value)]>>
                              \o rest.value)
                  ELSE rest

getParameterObjects(s, p) ==
    IF ~zodInstanceofZodType(s) THEN Throw(NotASchema)
    ELSE IF ~zodInstanceof(s, "ZodObject") THEN Throw(ObjectKindRequired)
    ELSE LET extracted == extractPathSchema(s, p) IN
         IF ~extracted.ok THEN extracted
         ELSE LET pathParams == extracted.value.pathParams
                  restParams == extracted.value.restParams
                  restEntries == RestParameterEntries(restParams.shape)
              IN  IF ~restEntries.ok THEN restEntries
                  ELSE LET restParamObjects ==
                               ObjectFromEntries(restEntries.value)
                           pathParamObjects ==
                               schemaToPathParameterObjects(pathParams)
                       IN  IF ~pathParamObjects.ok THEN pathParamObjects
                           ELSE Return(ObjectValues(
                                    Spread(restParamObjects,
                                           pathParamObjects.value)))

\* mutant of RequestBodyObject: required when a field of the remainder is
RequestBodyObjectByFields(restParams) ==
    [required |-> \E i \in DOMAIN restParams.shape :
                      ~isOptional(restParams.shape[i].value),
     content |-> [mediaType |-> "application/json",
                  schema |-> zodSchemaToOpenApiSchemaObject(restParams)]]

\* the requestBody of getMutationInputObjects
RequestBodyObject(restParams) ==
    [required |-> ~isOptional(restParams),
     content |-> [mediaType |-> "application/json",
                  schema |-> zodSchemaToOpenApiSchemaObject(restParams)]]

getMutationInputObjects(s, p) ==
    IF ~zodInstanceofZodType(s) THEN Throw(NotASchema)
    ELSE LET extracted == extractPathSchema(s, p) IN
         IF ~extracted.ok THEN extracted
         ELSE LET pathParams == extracted.value.pathParams
                  restParams == extracted.value.restParams
                  pathParamObjects == schemaToPathParameterObjects(pathParams)
              IN  IF ~pathParamObjects.ok THEN pathParamObjects
                  ELSE Return([requestBody |-> RequestBodyObject(restParams),
                               parameters |->
                                   ObjectValues(pathParamObjects.value)])

---------------------------------------------------------------------------
(* The inputs of the checked calls.                                        *)

\* field names of the generated schemas; "_def" is also a property name of
\* every schema instance
FieldNames == {"id", "title", "_def"}

\* field schemas of the generated multi-field schemas
BasicFields == {ZodString, ZodNumber, ZodOptional(ZodString)}

\* the schemas stacking at most n wrappers on a string or a number
RECURSIVE Wrapped(_)
Wrapped(n) ==
    IF n = 0 THEN {ZodString, ZodNumber}
    ELSE LET W == Wrapped(n - 1) IN
         W \cup {ZodOptional(w) : w \in W} \cup {ZodDefault(w) : w \in W}
           \cup {ZodNullable(w) : w \in W}
           \cup {ZodEffects(w, u) : w \in W, u \in BOOLEAN}

\* the shapes of at most n fields
RECURSIVE Shapes(_)
Shapes(n) ==
    IF n = 0 THEN {<<>>}
    ELSE LET S == Shapes(n - 1) IN
         S \cup UNION {{Append(o, [key |-> k, value |-> v]) :
                           k \in FieldNames \ KeySet(o), v \in BasicFields} :
                       o \in S}

\* "slug" and "constructor" name no field of any schema
Segments ==
    {Segment("users", FALSE), Segment("", TRUE), Segment("slug", TRUE),
     Segment("constructor", TRUE)}
    \cup {Segment(k, TRUE) : k \in FieldNames}

\* the templates of at most n segments
RECURSIVE Paths(_)
Paths(n) ==
    IF n = 0 THEN {<<>>}
    ELSE LET P == Paths(n - 1) IN P \cup {Append(p, g) : p \in P, g \in Segments}

Field(key, value) == [key |-> key, value |-> value]

\* object schemas of basic fields, with every template
GeneratedInputs ==
    {[schema |-> ZodObject(o), path |-> p] :
        o \in Shapes(MaxFields), p \in Paths(MaxSegments)}

\* one field under a chain of wrappers, bound to a segment or not
DeepInputs ==
    {[schema |-> ZodObject(<<Field("id", w)>>), path |-> p] :
        w \in Wrapped(MaxWrap),
        p \in {<<Segment("users", FALSE)>>,
               <<Segment("users", FALSE), Segment("id", TRUE)>>}}

\* a value that is no schema: an object without _def
PlainObject == [id |-> "3d4f9279"]

\* top-level values that are no ZodObject
TopLevelInputs ==
    LET object == ZodObject(<<Field("id", ZodString)>>) IN
    {[schema |-> s, path |-> p] :
        s \in {Undefined, PlainObject, ZodString, ZodNumber,
               ZodOptional(object), ZodDefault(object), ZodNullable(object),
               ZodEffects(object, FALSE)},
        p \in Paths(1)}

\* /users/{id}/posts/{postId} with the fields id, postId, title, the fields
\* in each order
ExamplePath ==
    <<Segment("users", FALSE), Segment("id", TRUE),
      Segment("posts", FALSE), Segment("postId", TRUE)>>

ExampleInputs ==
    {[schema |-> ZodObject(o), path |-> ExamplePath] :
        o \in {<<Field("id", ZodString), Field("postId", ZodString),
                 Field("title", ZodString)>>,
               <<Field("title", ZodString), Field("postId", ZodString),
                 Field("id", ZodString)>>}}

Inputs == GeneratedInputs \cup DeepInputs \cup TopLevelInputs \cup ExampleInputs

---------------------------------------------------------------------------
(* The state machine: one build of each entry point on the same input.     *)

NotCalled == [called |-> FALSE]

Init ==
    /\ \E i \in Inputs : schema = i.schema /\ path = i.path
    /\ pathSchema = NotCalled
    /\ parameterObjects = NotCalled
    /\ mutationInputObjects = NotCalled

\* getParameterObjects reaches extractPathSchema past its own two guards
CallGetParameterObjects ==
    /\ parameterObjects = NotCalled
    /\ parameterObjects' = getParameterObjects(schema, path)
    /\ pathSchema' = IF zodInstanceof(schema, "ZodObject")
                     THEN extractPathSchema(schema, path) ELSE pathSchema
    /\ UNCHANGED <<schema, path, mutationInputObjects>>

\* getMutationInputObjects reaches extractPathSchema past its one guard
CallGetMutationInputObjects ==
    /\ mutationInputObjects = NotCalled
    /\ mutationInputObjects' = getMutationInputObjects(schema, path)
    /\ pathSchema' = IF zodInstanceofZodType(schema)
                     THEN extractPathSchema(schema, path) ELSE pathSchema
    /\ UNCHANGED <<schema, path, parameterObjects>>

Next == CallGetParameterObjects \/ CallGetMutationInputObjects

Spec == Init /\ [][Next]_vars

---------------------------------------------------------------------------
(* What the claims speak of, read off the inputs and the outcomes.         *)

IsObject == zodInstanceof(schema, "ZodObject")

\* the names in braces of the template
SegmentNames ==
    {path[i].text : i \in {j \in DOMAIN path :
                              path[j].braces /\ path[j].text # ""}}

\* the field names of the input schema
SchemaNames == KeySet(schema.shape)

AllSegmentsKnown == IsObject /\ SegmentNames \subseteq SchemaNames

Called(outcome) == outcome # NotCalled

Succeeded(outcome) == Called(outcome) /\ outcome.ok

Threw(outcome, message) ==
    Called(outcome) /\ ~outcome.ok /\ outcome.message = message

\* the names of a list of ParameterObjects, in order
Names(list) == [i \in DOMAIN list |-> list[i].name]

\* seq without the repetitions of an element after its first occurrence
RECURSIVE Distinct(_)
Distinct(seq) ==
    IF seq = <<>> THEN <<>>
    ELSE LET front == Distinct(SubSeq(seq, 1, Len(seq) - 1))
             last == seq[Len(seq)]
         IN  IF \E i \in DOMAIN front : front[i] = last
             THEN front ELSE Append(front, last)

\* the names in braces, in template order, each once
TemplateOrder ==
    Distinct(SelectSeq([i \in DOMAIN path |->
                           IF path[i].braces THEN path[i].text ELSE ""],
                       LAMBDA t : t # ""))

---------------------------------------------------------------------------
(* C1: extractPathSchema(S, T) partitions the fields of S: pathParams and  *)
(* restParams have disjoint field names whose union is the field names of  *)
(* S, for a template whose segments all name fields of S.  The code        *)
(* leaves every field named by a segment in restParams too.                *)
C1_PartitionDisjointCover ==
    (AllSegmentsKnown /\ Succeeded(pathSchema)) =>
        LET pathNames == KeySet(pathSchema.value.pathParams.shape)
            restNames == KeySet(pathSchema.value.restParams.shape)
        IN  /\ pathNames \cap restNames = {}
            /\ pathNames \cup restNames = SchemaNames

---------------------------------------------------------------------------
(* C2 as stated: in the list of a successful getParameterObjects(S, T)     *)
(* every path parameter comes before every query parameter (here already   *)
(* for the schemas none of whose fields is named like a property of the    *)
(* schema instance).                                                       *)
C2_PathBeforeQuery ==
    (Succeeded(parameterObjects) /\ SchemaNames \cap ZodObjectOwnKeys = {}) =>
        \A i, j \in DOMAIN parameterObjects.value :
            (parameterObjects.value[i].in = "path"
             /\ parameterObjects.value[j].in = "query") => i < j

(* C2 amended: the list of a successful getParameterObjects(S, T) follows  *)
(* the order of the fields of S, whatever their locations; only a path     *)
(* parameter whose name is a property name of the schema instance comes    *)
(* after them, in template order.                                          *)
C2_SchemaOrder ==
    Succeeded(parameterObjects) =>
        Names(parameterObjects.value) =
            SelectSeq(ObjectKeys(schema.shape),
                      LAMBDA k : k \notin ZodObjectOwnKeys)
            \o SelectSeq(TemplateOrder, LAMBDA k : k \in ZodObjectOwnKeys)

\* a query parameter listed before a path parameter
C2_Witness ==
    /\ Succeeded(parameterObjects)
    /\ SchemaNames \cap ZodObjectOwnKeys = {}
    /\ \E i, j \in DOMAIN parameterObjects.value :
          /\ i < j
          /\ parameterObjects.value[i].in = "query"
          /\ parameterObjects.value[j].in = "path"

---------------------------------------------------------------------------
(* C3: the path subset holds exactly the fields the segments name, in      *)
(* template order, each with the field schema of S; the parameters of      *)
(* getMutationInputObjects are one path parameter (simple, explode) per    *)
(* segment name in that order; and for /users/{id}/posts/{postId} over     *)
(* the fields id, postId, title the path subset is id, postId and the      *)
(* remainder is title.  The code's remainder there is id, postId, title.   *)
C3_PathSubsetInTemplateOrder ==
    /\ (AllSegmentsKnown /\ Succeeded(pathSchema)) =>
          LET pathShape == pathSchema.value.pathParams.shape IN
          /\ ObjectKeys(pathShape) = TemplateOrder
          /\ \A i \in DOMAIN pathShape :
                pathShape[i].value = Get(schema.shape, pathShape[i].key)
          /\ (path = ExamplePath /\ SchemaNames = {"id", "postId", "title"}) =>
                /\ ObjectKeys(pathShape) = <<"id", "postId">>
                /\ ObjectKeys(pathSchema.value.restParams.shape) = <<"title">>
    /\ Succeeded(mutationInputObjects) =>
          LET parameters == mutationInputObjects.value.parameters IN
          /\ Names(parameters) = TemplateOrder
          /\ \A i \in DOMAIN parameters :
                /\ parameters[i].in = "path"
                /\ parameters[i].style = "simple"
                /\ parameters[i].explode

---------------------------------------------------------------------------
(* Wrapper chains, read off the schema without getBaseZodType.             *)

IsWrapper(s) ==
    s.typeName \in {"ZodOptional", "ZodDefault", "ZodNullable", "ZodEffects"}

Inner(s) == IF s.typeName = "ZodEffects" THEN s.schema ELSE s.innerType

\* the kinds of a field schema, outermost first
RECURSIVE Chain(_)
Chain(s) ==
    IF IsWrapper(s) THEN <<s.typeName>> \o Chain(Inner(s)) ELSE <<s.typeName>>

Unwrapped == {"ZodOptional", "ZodDefault", "ZodEffects"}

\* the place in a chain of the first kind that is not Optional, Default or
\* Effects
FirstOther(c) ==
    CHOOSE k \in DOMAIN c :
        c[k] \notin Unwrapped /\ \A j \in 1..(k - 1) : c[j] \in Unwrapped

\* a string under Optional, Default and Effects wrappers only
StringUnderWrappers(s) == LET c == Chain(s) IN c[FirstOther(c)] = "ZodString"

\* the field schema of S under a name
FieldOf(name) == Get(schema.shape, name)

\* every ParameterObject the two entry points returned
Emitted ==
    (IF Succeeded(parameterObjects)
     THEN {parameterObjects.value[i] : i \in DOMAIN parameterObjects.value}
     ELSE {})
    \cup
    (IF Succeeded(mutationInputObjects)
     THEN {mutationInputObjects.value.parameters[i] :
              i \in DOMAIN mutationInputObjects.value.parameters}
     ELSE {})

---------------------------------------------------------------------------
(* C4: the required flag of every emitted path or query parameter is the   *)
(* negation of isOptional() of the field schema as written in S, while     *)
(* the string check looks at the unwrapped base: a plain string is         *)
(* required, a string under an outermost Optional or Default is not, and   *)
(* under an outermost Effects it is what the effect makes of undefined,    *)
(* whatever lies beneath.                                                  *)
C4_RequiredFromWrappedField ==
    \A p \in Emitted :
        LET f == FieldOf(p.name) IN
        /\ getBaseZodType(f).typeName = "ZodString"
        /\ p.required = ~isOptional(f)
        /\ f.typeName = "ZodString" => p.required
        /\ f.typeName \in {"ZodOptional", "ZodDefault"} => ~p.required
        /\ f.typeName = "ZodEffects" => (p.required = ~f.acceptsUndefined)

\* a string with a default over an optional, emitted as not required, by
\* both entry points
C4_Witness ==
    /\ Succeeded(parameterObjects)
    /\ Succeeded(mutationInputObjects)
    /\ \E p \in Emitted :
          /\ Chain(FieldOf(p.name)) = <<"ZodDefault", "ZodOptional", "ZodString">>
          /\ ~p.required

---------------------------------------------------------------------------
(* C5: with every segment naming a field, a field outside the template     *)
(* whose base kind is not String makes getParameterObjects throw           *)
(* StringFieldRequired, while getMutationInputObjects succeeds and puts    *)
(* the field in the request body; a non-string field a segment names       *)
(* makes both throw StringFieldRequired.  The code drops a field named     *)
(* like a property of the schema instance from the remainder, C1's slip.   *)
C5_NonStringQueryVersusBody ==
    AllSegmentsKnown =>
        LET NonString(k) == ~StringUnderWrappers(FieldOf(k))
            outside == {k \in SchemaNames \ SegmentNames : NonString(k)}
            bound == {k \in SegmentNames : NonString(k)}
        IN  /\ (outside # {} /\ Called(parameterObjects)) =>
                  Threw(parameterObjects, StringFieldRequired)
            /\ (outside # {} /\ bound = {} /\ Called(mutationInputObjects)) =>
                  /\ Succeeded(mutationInputObjects)
                  /\ outside \subseteq
                        KeySet(mutationInputObjects.value.requestBody
                                   .content.schema.properties)
            /\ bound # {} =>
                  /\ Called(parameterObjects) =>
                        Threw(parameterObjects, StringFieldRequired)
                  /\ Called(mutationInputObjects) =>
                        Threw(mutationInputObjects, StringFieldRequired)

---------------------------------------------------------------------------
(* C6: when a segment of T names no field of the object schema S, both     *)
(* entry points throw UnknownPathField and return nothing, whatever the    *)
(* other fields and segments are.  The code reads shape[key], which finds  *)
(* the properties of Object.prototype too.                                 *)
C6_UnknownPathField ==
    (IsObject /\ ~(SegmentNames \subseteq SchemaNames)) =>
        /\ Called(parameterObjects) =>
              parameterObjects = Throw(UnknownPathField)
        /\ Called(mutationInputObjects) =>
              mutationInputObjects = Throw(UnknownPathField)

---------------------------------------------------------------------------
(* C7: a top-level schema that is a schema but no ZodObject (a string, a   *)
(* number, a wrapper around an object) makes both entry points throw       *)
(* ObjectKindRequired, for every template; a value without the kind        *)
(* discriminator makes them throw NotASchema.                              *)
C7_TopLevelKind ==
    /\ (zodInstanceofZodType(schema) /\ ~IsObject) =>
          /\ Called(parameterObjects) =>
                parameterObjects = Throw(ObjectKindRequired)
          /\ Called(mutationInputObjects) =>
                mutationInputObjects = Throw(ObjectKindRequired)
    /\ ~zodInstanceofZodType(schema) =>
          /\ Called(parameterObjects) => parameterObjects = Throw(NotASchema)
          /\ Called(mutationInputObjects) =>
                mutationInputObjects = Throw(NotASchema)

\* an optional object with a template without dynamic segment
C7_Witness ==
    /\ zodInstanceof(schema, "ZodOptional")
    /\ zodInstanceof(schema.innerType, "ZodObject")
    /\ SegmentNames = {}
    /\ Threw(parameterObjects, ObjectKindRequired)
    /\ Threw(mutationInputObjects, ObjectKindRequired)

---------------------------------------------------------------------------
(* C8: getBaseZodType returns the first schema of the chain that is not    *)
(* an Optional, Default or Effects wrapper, in any nesting order and       *)
(* depth, and never looks through a nullable: a field the builders place   *)
(* in path or query is accepted exactly when that first schema is a        *)
(* string, and is rejected with StringFieldRequired otherwise.             *)
C8_BaseUnderWrappers ==
    /\ IsObject =>
          \A i \in DOMAIN schema.shape :
              LET c == Chain(schema.shape[i].value) IN
              Chain(getBaseZodType(schema.shape[i].value))
                  = SubSeq(c, FirstOther(c), Len(c))
    /\ Succeeded(pathSchema) =>
          LET Accepted(shape) ==
                  \A i \in DOMAIN shape :
                      /\ zodInstanceofZodType(shape[i].value)
                      /\ StringUnderWrappers(shape[i].value)
              pathShape == pathSchema.value.pathParams.shape
              restShape == pathSchema.value.restParams.shape
          IN  /\ Called(mutationInputObjects) =>
                    IF Accepted(pathShape)
                    THEN mutationInputObjects.ok
                    ELSE mutationInputObjects = Throw(StringFieldRequired)
              /\ Called(parameterObjects) =>
                    IF Accepted(pathShape) /\ Accepted(restShape)
                    THEN parameterObjects.ok
                    ELSE parameterObjects = Throw(StringFieldRequired)

\* a nullable string under a default, named by a segment, rejected
C8_Witness ==
    /\ IsObject
    /\ \E k \in SegmentNames \cap SchemaNames :
          Chain(FieldOf(k)) = <<"ZodDefault", "ZodNullable", "ZodString">>
    /\ Threw(parameterObjects, StringFieldRequired)
    /\ Threw(mutationInputObjects, StringFieldRequired)

---------------------------------------------------------------------------
(* C9: the list of a successful getParameterObjects(S, T) holds exactly    *)
(* one ParameterObject per field name of S, located in path (simple) when  *)
(* a segment of T names it and in query (form) otherwise, also when T      *)
(* repeats a segment.  The code leaves out a field outside the template    *)
(* that is named like a property of the schema instance, C1's slip.        *)
C9_OneParameterPerField ==
    Succeeded(parameterObjects) =>
        LET list == parameterObjects.value IN
        /\ \A i, j \in DOMAIN list : list[i].name = list[j].name => i = j
        /\ {list[i].name : i \in DOMAIN list} = SchemaNames
        /\ \A i \in DOMAIN list :
              IF list[i].name \in SegmentNames
              THEN list[i].in = "path" /\ list[i].style = "simple"
              ELSE list[i].in = "query" /\ list[i].style = "form"

---------------------------------------------------------------------------
(* C10: a successful getMutationInputObjects(S, T) always emits a          *)
(* requestBody of media type application/json with required = true,       *)
(* whatever the optionality of the remainder's fields, and also when a     *)
(* segment binds every field of S.                                         *)
C10_RequestBodyRequired ==
    Succeeded(mutationInputObjects) =>
        /\ "requestBody" \in DOMAIN mutationInputObjects.value
        /\ mutationInputObjects.value.requestBody.required
        /\ mutationInputObjects.value.requestBody.content.mediaType
              = "application/json"

\* every field of S is bound to a segment, and optional
C10_Witness ==
    /\ Succeeded(mutationInputObjects)
    /\ SchemaNames # {}
    /\ SchemaNames \subseteq SegmentNames
    /\ \A k \in SchemaNames : isOptional(FieldOf(k))

====
